---- MODULE Spec2Model ----
(***************************************************************************)
(* Occlusion sensitivity (tf_explain/core/occlusion_sensitivity.py).       *)
(*                                                                         *)
(* OcclusionSensitivity.explain walks a batch of images, calls             *)
(* get_sensitivity_map on each, turns every map into a heatmap and hands   *)
(* the heatmaps to the grid display.  get_sensitivity_map allocates the    *)
(* low-resolution grid, asks the model for the baseline confidence, sweeps *)
(* the image with grey patches (one inference per patch), fills the grid   *)
(* with baseline - confidence and resizes it with cv2.resize.              *)
(*                                                                         *)
(* Arrays are sequences of rows (1-based in TLA+); the loop counters keep  *)
(* the 0-based values of the Python code and are shifted by one where an   *)
(* array is indexed.  Pixel values are stored doubled so that the grey     *)
(* value 127.5 is the integer 255.  An image has one channel: the patch    *)
(* generator treats all channels of a pixel alike.                         *)
(***************************************************************************)
EXTENDS Integers, Sequences, FiniteSets, TLC

\* ------------------------------------------------------------------ bounds
MaxH == 4
MaxW == 4
MaxPatch == 4
MaxBatch == 2

\* ------------------------------------------------------------- arithmetic
Ceil(a, b) == (a + b - 1) \div b

Min(a, b) == IF a < b THEN a ELSE b

Rows(m) == Len(m)

Cols(m) == Len(m[1])

RECURSIVE SumSeq(_)
SumSeq(s) == IF s = <<>> THEN 0 ELSE Head(s) + SumSeq(Tail(s))

\* Row-major flattening of an array of rows.
RECURSIVE Flatten(_)
Flatten(m) == IF m = <<>> THEN <<>> ELSE Head(m) \o Flatten(Tail(m))

\* ------------------------------------------------------------ collaborators
Grey == 255

\* tf_explain.utils.image.apply_grey_patch: a copy of the image whose rows
\* [top_left_y, top_left_y + patch_size) and columns
\* [top_left_x, top_left_x + patch_size), clipped to the image, are grey.
PatchRegion(image, top_left_x, top_left_y, patch_size) ==
    { <<r, c>> \in (0 .. Rows(image) - 1) \X (0 .. Cols(image) - 1) :
        /\ top_left_y <= r /\ r < top_left_y + patch_size
        /\ top_left_x <= c /\ c < top_left_x + patch_size }

apply_grey_patch(image, top_left_x, top_left_y, patch_size) ==
    [r \in 1 .. Rows(image) |->
        [c \in 1 .. Cols(image) |->
            IF <<r - 1, c - 1>> \in PatchRegion(image, top_left_x, top_left_y, patch_size)
            THEN Grey
            ELSE image[r][c]]]

\* The classifiers the sweep is run against.  "constant" answers the same
\* vector whatever the input; "weighted" answers, per class, a weighted sum
\* of the pixels, so that occluding different regions gives different scores.
Models == {"constant", "weighted"}

ClassIndices == {0, 1}

PixelWeight(class, k) == IF class = 0 THEN k ELSE k * k

WeightedScore(image, class) ==
    LET flat == Flatten(image)
    IN  SumSeq([k \in 1 .. Len(flat) |-> PixelWeight(class, k) * flat[k]])

\* model.predict(np.array([x]), batch_size=1)[0]: the per-class confidences.
predict(m, image) ==
    IF m = "constant"
    THEN <<900, 100>>
    ELSE <<WeightedScore(image, 0), WeightedScore(image, 1)>>

\* cv2.resize(src, dsize) with the default bilinear interpolation.  dsize is
\* (width, height): the result has dsize[2] rows and dsize[1] columns.  The
\* cells are kept as numerators over the common denominator
\* 4 * dsize[1] * dsize[2].
SrcIndex(d, srcN, dstN) ==
    LET num == (2 * d + 1) * srcN - dstN
        s   == num \div (2 * dstN)
    IN  IF s < 0 THEN [i |-> 0, f |-> 0]
        ELSE IF s >= srcN - 1 THEN [i |-> srcN - 1, f |-> 0]
        ELSE [i |-> s, f |-> num - s * 2 * dstN]

cv2_resize(src, dsize) ==
    LET dstC == dsize[1]
        dstR == dsize[2]
        At(r, c) == src[Min(r, Rows(src) - 1) + 1][Min(c, Cols(src) - 1) + 1]
    IN  [dr \in 1 .. dstR |->
            [dc \in 1 .. dstC |->
                LET y == SrcIndex(dr - 1, Rows(src), dstR)
                    x == SrcIndex(dc - 1, Cols(src), dstC)
                    wy == 2 * dstR
                    wx == 2 * dstC
                IN    (wy - y.f) * (wx - x.f) * At(y.i, x.i)
                    + (wy - y.f) * x.f * At(y.i, x.i + 1)
                    + y.f * (wx - x.f) * At(y.i + 1, x.i)
                    + y.f * x.f * At(y.i + 1, x.i + 1)]]

\* tf_explain.utils.display.heatmap_display and grid_display: what they are
\* given, in the order they are given it.
heatmap_display(heatmap, image, colormap) ==
    [heatmap |-> heatmap, image |-> image, colormap |-> colormap]

grid_display(array) == [cells |-> array]

\* ------------------------------------------------------------------ inputs
ImageKinds == {"uniform", "gradient"}

MakeImage(kind, h, w) ==
    [r \in 1 .. h |->
        [c \in 1 .. w |->
            IF kind = "uniform" THEN 200 ELSE 2 * ((r - 1) * w + c)]]

Batches(h, w) ==
    UNION { [1 .. n -> { MakeImage(k, h, w) : k \in ImageKinds }] : n \in 1 .. MaxBatch }

COLORMAP_VIRIDIS == "viridis"

NoValue == "none"

\* A local array that has not been assigned yet.
NoArray == <<>>

VARIABLES
    images,                    \* validation_data[0]
    model,
    class_index,
    patch_size,
    colormap,
    pc,                        \* position in explain / get_sensitivity_map
    cur,                       \* position of the image being processed
    sensitivity_map,           \* get_sensitivity_map locals
    coordinates,
    target_class_predictions,
    base_confidence,
    index_y,
    index_x,
    patch,
    pbar_n,
    pbar_total,
    sensitivity_maps,          \* explain locals
    heatmaps,
    grid,
    inferences,                \* history: per call of get_sensitivity_map, the inputs given to model.predict
    grids,                     \* history: per call, the grid as it stood before cv2.resize
    failed                     \* history: a model.predict call has raised

vars == <<images, model, class_index, patch_size, colormap, pc, cur,
          sensitivity_map, coordinates, target_class_predictions,
          base_confidence, index_y, index_x, patch, pbar_n, pbar_total,
          sensitivity_maps, heatmaps, grid, inferences, grids, failed>>

inputVars == <<images, model, class_index, patch_size, colormap>>

explainVars == <<sensitivity_maps, heatmaps, grid>>

image == images[cur]

\* --------------------------------------------------- get_sensitivity_map
GridRows(img, p) == Ceil(Rows(img), p)

GridCols(img, p) == Ceil(Cols(img), p)

np_zeros(rows, cols) == [r \in 1 .. rows |-> [c \in 1 .. cols |-> 0]]

\* [(index_y, index_x) for index_x in range(shape[1]) for index_y in range(shape[0])]
Coordinates(rows, cols) ==
    [k \in 1 .. rows * cols |-> <<(k - 1) % rows, (k - 1) \div rows>>]

\* Mutation: the prediction list outlives the call that filled it.
NewPredictionsKept == target_class_predictions

NewPredictions == <<>>

\* Mutation: the baseline is taken on the array left in patch.
BaseInputStale(img) == IF patch = NoArray THEN img ELSE patch

BaseInput(img) == img

\* Mutation: the outer range stops before the clipped last patch.
OuterCountFloor(img, p) == Cols(img) \div p

\* len(range(0, image.shape[1], patch_size)) and len(range(0, image.shape[0], patch_size))
OuterCount(img, p) == Ceil(Cols(img), p)

InnerCount(img, p) == Ceil(Rows(img), p)

\* apply_grey_patch(image, top_left_x, top_left_y, patch_size) of the sweep,
\* top_left_y = index_y * patch_size and top_left_x = index_x * patch_size.
SweepPatch(img, ix, iy, p) == apply_grey_patch(img, ix * p, iy * p, p)

PbarTotal(img, p) == Ceil(Rows(img) * Cols(img), p * p)

\* Mutations: the baseline is added, or the difference is taken the other way round.
CellValueSum(base, confidence) == base + confidence

CellValueReversed(base, confidence) == confidence - base

CellValue(base, confidence) == base - confidence

\* for (index_y, index_x), confidence in zip(coordinates, predictions): map[index_y, index_x] = ...
RECURSIVE FillMap(_, _, _, _, _)
FillMap(map, coords, preds, base, k) ==
    IF k > Min(Len(coords), Len(preds))
    THEN map
    ELSE LET iy == coords[k][1]
             ix == coords[k][2]
         IN  FillMap([map EXCEPT ![iy + 1][ix + 1] = CellValue(base, preds[k])],
                     coords, preds, base, k + 1)

ResizeDsize(img) == <<Rows(img), Cols(img)>>

\* Mutation: the exception is swallowed and execution stays where it was.
OnRaiseSwallowed(at) == at

OnRaise(at) == "raised"

LogCall(x) == [inferences EXCEPT ![Len(inferences)] = Append(@, x)]

Init ==
    /\ \E h \in 1 .. MaxH, w \in 1 .. MaxW : images \in Batches(h, w)
    /\ model \in Models
    /\ class_index \in ClassIndices
    /\ patch_size \in 1 .. MaxPatch
    /\ colormap = COLORMAP_VIRIDIS
    /\ pc = "call"
    /\ cur = 1
    /\ sensitivity_map = NoArray
    /\ coordinates = <<>>
    /\ target_class_predictions = <<>>
    /\ base_confidence = NoValue
    /\ index_y = 0
    /\ index_x = 0
    /\ patch = NoArray
    /\ pbar_n = 0
    /\ pbar_total = 0
    /\ sensitivity_maps = <<>>
    /\ heatmaps = NoValue
    /\ grid = NoValue
    /\ inferences = <<>>
    /\ grids = <<>>
    /\ failed = FALSE

\* Lines 78-95: the grid, the coordinates and the empty prediction list.
Alloc ==
    /\ pc = "call"
    /\ sensitivity_map' = np_zeros(GridRows(image, patch_size), GridCols(image, patch_size))
    /\ coordinates' = Coordinates(GridRows(image, patch_size), GridCols(image, patch_size))
    /\ target_class_predictions' = NewPredictions
    /\ inferences' = Append(inferences, <<>>)
    /\ pc' = "base"
    /\ UNCHANGED <<inputVars, explainVars, cur, base_confidence, index_y, index_x,
                   patch, pbar_n, pbar_total, grids, failed>>

\* Lines 96-98: the baseline inference, then the progress bar is opened and
\* both loops start at their first element.
BasePredict ==
    /\ pc = "base"
    /\ base_confidence' = predict(model, BaseInput(image))[class_index + 1]
    /\ inferences' = LogCall(BaseInput(image))
    /\ pbar_total' = PbarTotal(image, patch_size)
    /\ pbar_n' = 0
    /\ index_y' = 0
    /\ index_x' = 0
    /\ pc' = "sweep"
    /\ UNCHANGED <<inputVars, explainVars, cur, sensitivity_map, coordinates,
                   target_class_predictions, patch, grids, failed>>

\* Line 96 raising: nothing catches it, in get_sensitivity_map or in explain.
BasePredictRaises ==
    /\ pc = "base"
    /\ inferences' = LogCall(BaseInput(image))
    /\ failed' = TRUE
    /\ pc' = OnRaise(pc)
    /\ UNCHANGED <<inputVars, explainVars, cur, sensitivity_map, coordinates,
                   target_class_predictions, base_confidence, index_y, index_x,
                   patch, pbar_n, pbar_total, grids>>

\* Lines 99-104: one iteration of the inner loop.
SweepStep ==
    /\ pc = "sweep"
    /\ LET patched == SweepPatch(image, index_x, index_y, patch_size)
           lastInner == index_x + 1 >= InnerCount(image, patch_size)
           lastOuter == index_y + 1 >= OuterCount(image, patch_size)
       IN  /\ patch' = patched
           /\ inferences' = LogCall(patched)
           /\ target_class_predictions' =
                  Append(target_class_predictions, predict(model, patched)[class_index + 1])
           /\ pbar_n' = pbar_n + 1
           /\ index_x' = IF lastInner THEN 0 ELSE index_x + 1
           /\ index_y' = IF lastInner /\ ~lastOuter THEN index_y + 1 ELSE index_y
           /\ pc' = IF lastInner /\ lastOuter THEN "fill" ELSE "sweep"
    /\ UNCHANGED <<inputVars, explainVars, cur, sensitivity_map, coordinates,
                   base_confidence, pbar_total, grids, failed>>

\* Line 102 raising.
SweepPredictRaises ==
    /\ pc = "sweep"
    /\ patch' = SweepPatch(image, index_x, index_y, patch_size)
    /\ inferences' = LogCall(patch')
    /\ failed' = TRUE
    /\ pc' = OnRaise(pc)
    /\ UNCHANGED <<inputVars, explainVars, cur, sensitivity_map, coordinates,
                   target_class_predictions, base_confidence, index_y, index_x,
                   pbar_n, pbar_total, grids>>

\* Lines 106-110.
Fill ==
    /\ pc = "fill"
    /\ sensitivity_map' =
           FillMap(sensitivity_map, coordinates, target_class_predictions, base_confidence, 1)
    /\ grids' = Append(grids, sensitivity_map')
    /\ pc' = "resize"
    /\ UNCHANGED <<inputVars, explainVars, cur, coordinates, target_class_predictions,
                   base_confidence, index_y, index_x, patch, pbar_n, pbar_total,
                   inferences, failed>>

\* Line 112, and the list comprehension of explain (lines 46-51) taking the
\* returned map and moving to the next image.
Return ==
    /\ pc = "resize"
    /\ sensitivity_maps' =
           Append(sensitivity_maps, cv2_resize(sensitivity_map, ResizeDsize(image)))
    /\ IF cur < Len(images)
       THEN /\ cur' = cur + 1
            /\ pc' = "call"
       ELSE /\ cur' = cur
            /\ pc' = "heatmaps"
    /\ UNCHANGED <<inputVars, heatmaps, grid, sensitivity_map, coordinates,
                   target_class_predictions, base_confidence, index_y, index_x,
                   patch, pbar_n, pbar_total, inferences, grids, failed>>

\* Lines 53-58.
Heatmaps ==
    /\ pc = "heatmaps"
    /\ heatmaps' = [i \in 1 .. Min(Len(sensitivity_maps), Len(images)) |->
                       heatmap_display(sensitivity_maps[i], images[i], colormap)]
    /\ pc' = "grid"
    /\ UNCHANGED <<inputVars, sensitivity_maps, grid, cur, sensitivity_map, coordinates,
                   target_class_predictions, base_confidence, index_y, index_x,
                   patch, pbar_n, pbar_total, inferences, grids, failed>>

\* Lines 61-63.
GridDisplay ==
    /\ pc = "grid"
    /\ grid' = grid_display(heatmaps)
    /\ pc' = "done"
    /\ UNCHANGED <<inputVars, sensitivity_maps, heatmaps, cur, sensitivity_map, coordinates,
                   target_class_predictions, base_confidence, index_y, index_x,
                   patch, pbar_n, pbar_total, inferences, grids, failed>>

Next ==
    \/ Alloc
    \/ BasePredict
    \/ BasePredictRaises
    \/ SweepStep
    \/ SweepPredictRaises
    \/ Fill
    \/ Return
    \/ Heatmaps
    \/ GridDisplay

Spec == Init /\ [][Next]_vars

\* get_sensitivity_map(model, img, class, p) called on its own: the value it returns.
SensitivityMapAlone(m, img, class, p) ==
    LET rows  == GridRows(img, p)
        cols  == GridCols(img, p)
        inner == InnerCount(img, p)
        base  == predict(m, BaseInput(img))[class + 1]
        preds == [k \in 1 .. OuterCount(img, p) * inner |->
                     predict(m, SweepPatch(img, (k - 1) % inner, (k - 1) \div inner, p))[class + 1]]
    IN  cv2_resize(FillMap(np_zeros(rows, cols), Coordinates(rows, cols), preds, base, 1),
                   ResizeDsize(img))

TypeOK ==
    /\ pc \in {"call", "base", "sweep", "fill", "resize", "heatmaps", "grid", "done", "raised"}
    /\ cur \in 1 .. Len(images)
    /\ pbar_n \in Nat
    /\ Len(grids) <= Len(inferences)
    /\ Len(sensitivity_maps) <= Len(grids)

\* ----------------------------------------------------------------- properties
Confidence(img) == predict(model, img)[class_index + 1]

Pixels(img) == (0 .. Rows(img) - 1) \X (0 .. Cols(img) - 1)

\* The pixels in which an inference input differs from the image it was made from.
Occluded(img, input) == { px \in Pixels(img) : input[px[1] + 1][px[2] + 1] # img[px[1] + 1][px[2] + 1] }

\* The image with rows [r0, r1) and columns [c0, c1) grey.
GreyBlock(img, r0, r1, c0, c1) ==
    [r \in 1 .. Rows(img) |->
        [c \in 1 .. Cols(img) |->
            IF r0 <= r - 1 /\ r - 1 < r1 /\ c0 <= c - 1 /\ c - 1 < c1 THEN Grey ELSE img[r][c]]]

IsZero(m) == \A r \in 1 .. Len(m) : \A c \in 1 .. Len(m[r]) : m[r][c] = 0

Uneven(img) == Rows(img) % patch_size # 0 \/ Cols(img) % patch_size # 0

\* The patched inference inputs of the i-th call, in the order they were issued.
PatchedInputs(i) == Tail(inferences[i])

\* C1: every cell (r, c) of the grid holds the baseline confidence minus the
\* confidence for the image whose rows [r*p, min((r+1)*p, H)) and columns
\* [c*p, min((c+1)*p, W)) are grey.
C1_CellIsDeltaOfItsRegion ==
    \A i \in 1 .. Len(grids) :
        LET img == images[i]
            p   == patch_size
            H   == Rows(img)
            W   == Cols(img)
        IN  /\ Rows(grids[i]) = Ceil(H, p)
            /\ Cols(grids[i]) = Ceil(W, p)
            /\ \A r \in 0 .. Ceil(H, p) - 1 : \A c \in 0 .. Ceil(W, p) - 1 :
                   grids[i][r + 1][c + 1] =
                       Confidence(img)
                       - Confidence(GreyBlock(img, r * p, Min((r + 1) * p, H),
                                                   c * p, Min((c + 1) * p, W)))

\* C2: the returned map has as many rows as the image has rows and as many
\* columns as the image has columns.
C2_ReturnedMapHasImageShape ==
    \A i \in 1 .. Len(sensitivity_maps) :
        /\ Rows(sensitivity_maps[i]) = Rows(images[i])
        /\ Cols(sensitivity_maps[i]) = Cols(images[i])

\* C3: with a model that answers the same confidence whatever its input, the
\* grid before the resize and the returned map are zero everywhere.
C3_ConstantModelGivesZeroMap ==
    model = "constant" =>
        /\ \A i \in 1 .. Len(grids) : IsZero(grids[i])
        /\ \A i \in 1 .. Len(sensitivity_maps) : IsZero(sensitivity_maps[i])

C3_Witness ==
    /\ model = "constant"
    /\ patch_size = 2
    /\ images[1] = MakeImage("uniform", 4, 4)
    /\ Len(sensitivity_maps) >= 1
    /\ Rows(grids[1]) = 2 /\ Cols(grids[1]) = 2
    /\ Rows(sensitivity_maps[1]) = 4 /\ Cols(sensitivity_maps[1]) = 4

\* C4: when patch_size is at least H and at least W, the grid has one cell,
\* one patched inference is made, and the cell is the baseline confidence
\* minus the confidence for the wholly grey image.
C4_FullSizePatchGivesOneCell ==
    \A i \in 1 .. Len(grids) :
        LET img == images[i]
        IN  (patch_size >= Rows(img) /\ patch_size >= Cols(img)) =>
                /\ Rows(grids[i]) = 1
                /\ Cols(grids[i]) = 1
                /\ Len(PatchedInputs(i)) = 1
                /\ grids[i][1][1] =
                       Confidence(img)
                       - Confidence(GreyBlock(img, 0, Rows(img), 0, Cols(img)))

C4_Witness ==
    /\ Len(grids) >= 1
    /\ model = "weighted"
    /\ Rows(images[1]) = 2
    /\ Cols(images[1]) = 3
    /\ patch_size = 3
    /\ grids[1][1][1] # 0

\* C5: when patch_size does not divide H or W, the grid, the coordinate list
\* and the patched inferences each number ceil(H/p) * ceil(W/p), every
\* coordinate lies inside the grid, and every patched array has the shape of
\* the image (nothing is written outside it).
C5_UnevenPatchCountsAndBounds ==
    (pc \in {"base", "sweep", "fill", "resize"} /\ Uneven(image)) =>
        LET n == Ceil(Rows(image), patch_size) * Ceil(Cols(image), patch_size)
        IN  /\ Rows(sensitivity_map) * Cols(sensitivity_map) = n
            /\ Len(coordinates) = n
            /\ \A k \in 1 .. Len(coordinates) :
                   /\ coordinates[k][1] \in 0 .. Rows(sensitivity_map) - 1
                   /\ coordinates[k][2] \in 0 .. Cols(sensitivity_map) - 1
            /\ Len(target_class_predictions) <= n
            /\ pc \in {"fill", "resize"} =>
                   /\ Len(target_class_predictions) = n
                   /\ Len(PatchedInputs(cur)) = n
            /\ \A k \in 1 .. Len(inferences[cur]) :
                   LET x == inferences[cur][k]
                   IN  /\ Rows(x) = Rows(image)
                       /\ \A r \in 1 .. Rows(x) : Len(x[r]) = Cols(image)

C5_Witness ==
    /\ pc = "resize"
    /\ Rows(image) = 3
    /\ Cols(image) = 2
    /\ patch_size = 2
    /\ Len(target_class_predictions) = 2

\* C6: two calls on the same image issue the same inference inputs in the
\* same order and produce the same grid and the same returned map.
C6_SameInputsSameRun ==
    \A i, j \in 1 .. Len(grids) :
        images[i] = images[j] =>
            /\ inferences[i] = inferences[j]
            /\ grids[i] = grids[j]
            /\ (i <= Len(sensitivity_maps) /\ j <= Len(sensitivity_maps)) =>
                   sensitivity_maps[i] = sensitivity_maps[j]

C6_Witness ==
    /\ Len(sensitivity_maps) = 2
    /\ images[1] = images[2]
    /\ model = "weighted"
    /\ Len(inferences[2]) >= 5
    /\ ~IsZero(grids[2])

\* C7: the map kept for the i-th image is the map get_sensitivity_map returns
\* for that image alone, the i-th heatmap is made of the i-th map and the
\* i-th image, and the grid display receives the heatmaps in image order.
C7_BatchMapsAreIndependent ==
    LET alone(i) == SensitivityMapAlone(model, images[i], class_index, patch_size)
        expected == [i \in 1 .. Len(images) |-> heatmap_display(alone(i), images[i], colormap)]
    IN  /\ Len(sensitivity_maps) <= Len(images)
        /\ \A i \in 1 .. Len(sensitivity_maps) : sensitivity_maps[i] = alone(i)
        /\ pc \in {"grid", "done"} => heatmaps = expected
        /\ pc = "done" => grid = grid_display(expected)

C7_Witness ==
    /\ pc = "done"
    /\ Len(images) = 2
    /\ images[1] # images[2]
    /\ model = "weighted"
    /\ sensitivity_maps[1] # sensitivity_maps[2]

\* C8: once a model.predict call has raised, the run has stopped at the
\* raise: no further inference is issued, the failed call is not repeated,
\* and no map is returned for the image being processed.
C8_FailurePropagates ==
    /\ [](failed => (pc = "raised" /\ Len(sensitivity_maps) = cur - 1))
    /\ [][failed => (inferences' = inferences /\ sensitivity_maps' = sensitivity_maps
                     /\ heatmaps' = heatmaps /\ grid' = grid)]_vars

C8_Witness ==
    /\ failed
    /\ pc = "raised"
    /\ Len(inferences[cur]) >= 3

\* C9: the regions occluded by the patched inferences of one sweep are
\* non-empty, pairwise disjoint and cover the image, and each patched input
\* is the image with exactly its region grey.
C9_SweepRegionsPartitionImage ==
    \A i \in 1 .. Len(grids) :
        LET img    == images[i]
            inputs == PatchedInputs(i)
            region(k) == Occluded(img, inputs[k])
        IN  /\ \A k \in 1 .. Len(inputs) : region(k) # {}
            /\ \A k, l \in 1 .. Len(inputs) : k # l => region(k) \cap region(l) = {}
            /\ UNION { region(k) : k \in 1 .. Len(inputs) } = Pixels(img)
            /\ \A k \in 1 .. Len(inputs) : \A px \in region(k) :
                   inputs[k][px[1] + 1][px[2] + 1] = Grey

\* C10: the progress counter counts the patched inferences, never exceeds
\* the declared total, and equals the total once the sweep is over.
C10_ProgressWithinTotal ==
    pc \in {"sweep", "fill", "resize"} =>
        /\ pbar_n = Len(target_class_predictions)
        /\ pbar_n <= pbar_total
        /\ pc \in {"fill", "resize"} => pbar_n = pbar_total
====
